---- MODULE Spec2Model ----
(***************************************************************************)
(* A model of the Bilingui-AI backend: the authentication endpoints        *)
(* (app/api/auth.py), the progress endpoints behind the FastAPI router     *)
(* (app/api/progress.py, app/models/progress.py, app/main.py), the         *)
(* gamification engine (app/services/gamification_engine.py), the          *)
(* production learning engine and AI models                                *)
(* (app/services/production_learning_engine.py, real_ai_models.py,         *)
(* app/api/production_endpoints.py) and the audio upload endpoints         *)
(* (app/api/upload.py, app/utils/helpers.py).                              *)
(*                                                                         *)
(* The parts do not share state in the code (each service keeps its own    *)
(* dictionaries, the auth endpoints touch only the users table, the        *)
(* progress endpoints only the progress table), so each has its own        *)
(* next-state relation and specification, and Spec composes them.          *)
(***************************************************************************)
EXTENDS Integers, Sequences, FiniteSets, TLC

VARIABLES
    users,        \* the users table: a sequence of User rows, id = position
    auth_pc,      \* per worker thread: where its auth request stands
    auth_req,     \* per worker thread: the request it serves (payload)
    auth_found,   \* per worker thread: the row its query returned, 0 for None
    auth_resp,    \* per worker thread: the last response it sent
    progress,     \* the progress table: a sequence of Progress rows, id = position
    prog_req,     \* the last request sent to the progress router
    prog_endpoint,\* the endpoint function the router dispatched it to
    prog_resp,    \* the response to it
    inflight,     \* per client: its accepted request whose endpoint has not run
    user_stats,   \* GamificationEngine.user_stats
    leaderboards, \* GamificationEngine.leaderboards
    now,          \* the clock datetime.now() reads, in days
    eng_call,     \* the last call of a public GamificationEngine method
    eng_result,   \* what it did: returned a value, or raised
    xp_seen,      \* an earlier calculate_xp_reward call and its result
    student_profiles,  \* ProductionLearningEngine.student_profiles
    learning_pathways, \* ProductionLearningEngine.learning_pathways
    ple_call,     \* the last call of create_student_profile
    ple_result,   \* what it did: returned a profile, or raised
    ai_models,    \* the attributes of the global real_ai_models
    ai_started,   \* the application has started (lifespan ran)
    ai_loading,   \* how loading went in the last initialize-ai-models request
    ai_resp,      \* the response to it
    upload_dir,   \* the files of static/uploads
    analyses,     \* the analyses whisper_service was asked for
    uuids,        \* how many uuid4 values were handed out
    upload_req,   \* the last request to an audio upload endpoint
    upload_resp   \* the response to it

auth_vars == <<users, auth_pc, auth_req, auth_found, auth_resp>>

prog_vars == <<progress, prog_req, prog_endpoint, prog_resp>>

conc_vars == <<inflight>>

eng_vars == <<user_stats, leaderboards, now, eng_call, eng_result, xp_seen>>

prod_vars == <<student_profiles, learning_pathways, ple_call, ple_result,
               ai_models, ai_started, ai_loading, ai_resp>>

upload_vars == <<upload_dir, analyses, uuids, upload_req, upload_resp>>

vars == <<users, auth_pc, auth_req, auth_found, auth_resp,
          progress, prog_req, prog_endpoint, prog_resp, inflight,
          user_stats, leaderboards, now, eng_call, eng_result, xp_seen,
          student_profiles, learning_pathways, ple_call, ple_result,
          ai_models, ai_started, ai_loading, ai_resp,
          upload_dir, analyses, uuids, upload_req, upload_resp>>

\* What an auth request, a progress request, an engine call, a request to
\* the production endpoints and an audio upload leave alone.
not_auth_vars == <<prog_vars, conc_vars, eng_vars, prod_vars, upload_vars>>
not_prog_vars == <<auth_vars, conc_vars, eng_vars, prod_vars, upload_vars>>
not_prog_vars_but_inflight == <<auth_vars, eng_vars, prod_vars, upload_vars>>
not_eng_vars == <<auth_vars, prog_vars, conc_vars, prod_vars, upload_vars>>
not_prod_vars == <<auth_vars, prog_vars, conc_vars, eng_vars, upload_vars>>
not_upload_vars == <<auth_vars, prog_vars, conc_vars, eng_vars, prod_vars>>

(***************************************************************************)
(* Bounds and sample inputs.                                               *)
(***************************************************************************)
\* Threads of the threadpool that serve the synchronous (def) auth endpoints.
NumThreads == 2
Threads == 1..NumThreads

Emails == {"ana@x.io", "bob@x.io"}
Passwords == {"pw1", "pw2"}
Names == {"n"}

\* Authenticated users (current_user["user_id"]) and lessons of the progress
\* requests.
UserIds == {1, 2}
LessonIds == {1, 2}
\* Rows the progress table may hold, and sessions one row may record.
MaxRows == 2
MaxSessions == 1
\* Clients with a request to the progress endpoints in flight at a time.
NumClients == 2
Clients == 1..NumClients
\* Days the clock runs.
MaxDay == 2

(***************************************************************************)
(* app/api/auth.py                                                         *)
(***************************************************************************)
\* db.query(User).filter(User.email == email).first(): the id of the first
\* row with that email, 0 when there is none (None).
QueryUserByEmail(table, email) ==
    IF \E i \in 1..Len(table) : table[i].email = email
    THEN CHOOSE i \in 1..Len(table) :
            /\ table[i].email = email
            /\ \A j \in 1..(i - 1) : table[j].email # email
    ELSE 0

\* The users table as it would be with email = Column(String, index=True):
\* no unique index, so no INSERT is refused.
NoUniqueEmailIndex(table, email) == FALSE

\* Column(String, unique=True) on User.email: the INSERT of a row whose email
\* is already in the table fails with an IntegrityError.
UniqueEmailViolation(table, email) ==
    \E i \in 1..Len(table) : table[i].email = email

\* create_access_token({"sub": user.id}).  app/utils/token.py is not part of
\* the sources; the token is modelled as the claims it is created from.
create_access_token(sub) == [sub |-> sub]

\* HTTPException(status_code, detail) as the response the framework sends.
HTTPException(status_code, detail) ==
    [status |-> status_code, detail |-> detail]

\* LoginResponse(access_token=token, expires_at=...) sent with `status`.
\* expires_at (utcnow + 120 minutes) is left out: no claim reads it.
LoginResponse(status_code, token) ==
    [status |-> status_code, access_token |-> token, token_type |-> "bearer"]

NoResponse == [status |-> 0]
NoRequest == [op |-> "none"]
NoneInFlight == [endpoint |-> "none"]

\* login, lines 33-40: one query, then the token.  The password of the
\* payload is never compared with the stored one (the TODO of line 37).
login(t) ==
    /\ auth_pc[t] = "idle"
    /\ \E email \in Emails, password \in Passwords :
          LET user == QueryUserByEmail(users, email) IN
          /\ auth_req' = [auth_req EXCEPT ![t] =
                 [op |-> "login", email |-> email, password |-> password]]
          /\ auth_found' = [auth_found EXCEPT ![t] = user]
          /\ auth_resp' = [auth_resp EXCEPT ![t] =
                 IF user = 0
                 THEN HTTPException(401, "Invalid credentials")
                 ELSE LoginResponse(200, create_access_token(users[user].id))]
    /\ UNCHANGED <<users, auth_pc, not_auth_vars>>

\* register, line 45: the lookup of the email.  The endpoint is a plain def,
\* so the framework runs it on a threadpool thread and another request can
\* run between the lookup and the commit.
register_query(t) ==
    /\ auth_pc[t] = "idle"
    /\ \E email \in Emails, password \in Passwords, name \in Names :
          /\ auth_req' = [auth_req EXCEPT ![t] =
                 [op |-> "register", email |-> email, password |-> password,
                  name |-> name]]
          /\ auth_found' = [auth_found EXCEPT ![t] =
                 QueryUserByEmail(users, email)]
    /\ auth_pc' = [auth_pc EXCEPT ![t] = "queried"]
    /\ auth_resp' = [auth_resp EXCEPT ![t] = NoResponse]
    /\ UNCHANGED <<users, not_auth_vars>>

\* register, lines 46-47: the email was found.
register_reject(t) ==
    /\ auth_pc[t] = "queried"
    /\ auth_found[t] # 0
    /\ auth_pc' = [auth_pc EXCEPT ![t] = "idle"]
    /\ auth_resp' = [auth_resp EXCEPT ![t] =
           HTTPException(400, "Email already registered")]
    /\ UNCHANGED <<users, auth_req, auth_found, not_auth_vars>>

\* register, lines 49-60: db.add, db.commit, db.refresh and the token.  The
\* commit's INSERT violates the unique index when another request registered
\* the email meanwhile; the IntegrityError is not caught and the framework
\* answers 500.
register_commit(t) ==
    /\ auth_pc[t] = "queried"
    /\ auth_found[t] = 0
    /\ auth_pc' = [auth_pc EXCEPT ![t] = "idle"]
    /\ IF UniqueEmailViolation(users, auth_req[t].email)
       THEN /\ auth_resp' = [auth_resp EXCEPT ![t] =
                   HTTPException(500, "Internal Server Error")]
            /\ UNCHANGED users
       ELSE LET user == [id |-> Len(users) + 1,
                         email |-> auth_req[t].email,
                         hashed_password |-> auth_req[t].password,
                         name |-> auth_req[t].name] IN
            /\ users' = Append(users, user)
            /\ auth_resp' = [auth_resp EXCEPT ![t] =
                   LoginResponse(201, create_access_token(user.id))]
    /\ UNCHANGED <<auth_req, auth_found, not_auth_vars>>

(***************************************************************************)
(* app/models/progress.py                                                  *)
(***************************************************************************)
\* The columns of Progress with a default, lines 16-43.  Float columns hold
\* whole numbers here; the JSON columns hold a dict as its set of
\* <<key, JSON text>> pairs and a list as a sequence.  The timestamps
\* started_at and last_updated are left out: nothing reads them.
ColumnDefault ==
    [percent_complete |-> 0, is_completed |-> FALSE,
     current_level |-> "beginner", xp_gained |-> 0, total_xp |-> 0,
     streak_count |-> 0, accuracy_score |-> 0, fluency_score |-> 0,
     pronunciation_score |-> 0, time_spent_minutes |-> 0, session_count |-> 0,
     course_data |-> {}, learning_objectives |-> <<>>, strengths |-> <<>>,
     weaknesses |-> <<>>, completed_at |-> "None"]

Columns == DOMAIN ColumnDefault \cup {"id", "user_id", "lesson_id"}

\* Progress(**kwargs): a new object holds only the attributes it was given.
\* A column default is applied by the INSERT, not by the constructor, so
\* every other attribute of the object reads None until it is flushed.
NewProgress(kwargs) == kwargs

IsNone(obj, attr) == attr \notin DOMAIN obj

\* setattr(obj, attr, value)
SetAttr(obj, attr, value) ==
    [a \in DOMAIN obj \cup {attr} |-> IF a = attr THEN value ELSE obj[a]]

\* The INSERT of db.commit(): the next id, and the default of every column
\* the object does not set.
InsertRow(table, obj) ==
    Append(table,
           [c \in Columns |->
               IF c = "id" THEN Len(table) + 1
               ELSE IF c \in DOMAIN obj THEN obj[c]
               ELSE ColumnDefault[c]])

\* The UPDATE of db.commit() for a row loaded from the table.
UpdateRow(table, obj) == [table EXCEPT ![obj.id] = obj]

\* What a try body did: it returned a value (with the table as committed), or
\* it raised.
Returned(db, value) == [raised |-> FALSE, db |-> db, value |-> value]
Value(value) == [raised |-> FALSE, value |-> value]
Raised(exc) == [raised |-> TRUE, exc |-> exc]
TypeError(msg) == [type |-> "TypeError", msg |-> msg]
AttributeError(msg) == [type |-> "AttributeError", msg |-> msg]
KeyError(key) == [type |-> "KeyError", msg |-> key]
IsHTTPException(exc) == "status" \in DOMAIN exc

\* Progress.update_progress, lines 48-62.  On an object that was never
\* flushed time_spent_minutes is None and line 50 raises TypeError.
\* session_data is SessionData.dict(), which holds every key.
Progress_update_progress(self, session_data) ==
    IF IsNone(self, "time_spent_minutes")
    THEN Raised(TypeError(
             "unsupported operand type(s) for +=: 'NoneType' and 'int'"))
    ELSE LET s1 == [self EXCEPT
                     !.time_spent_minutes = @ + session_data.duration_minutes,
                     !.session_count = @ + 1,
                     !.accuracy_score = session_data.accuracy,
                     !.fluency_score = session_data.fluency,
                     !.pronunciation_score = session_data.pronunciation,
                     !.xp_gained = @ + session_data.xp_earned,
                     !.total_xp = @ + session_data.xp_earned]
         IN Value(
                IF s1.percent_complete >= 100 /\ ~s1.is_completed
                THEN [s1 EXCEPT !.is_completed = TRUE,
                                !.completed_at = "utcnow"]
                ELSE s1)

\* Progress.save_course_data, lines 64-67.
Progress_save_course_data(self, course_info) ==
    SetAttr(self, "course_data", course_info)

(***************************************************************************)
(* app/api/progress.py                                                     *)
(***************************************************************************)
\* A query that finds no row, whatever the table holds.
QueryFindsNothing(db, user_id, lesson_id) == 0

\* db.query(Progress).filter(user_id == .., lesson_id == ..).first(): the id
\* of the first matching row, 0 for None.
QueryProgress(db, user_id, lesson_id) ==
    LET hits == {i \in 1..Len(db) :
                    db[i].user_id = user_id /\ db[i].lesson_id = lesson_id}
    IN IF hits = {} THEN 0
       ELSE CHOOSE i \in hits : \A j \in hits : i <= j

\* db.query(Progress).filter(user_id == ..).all()
QueryUserProgress(db, user_id) ==
    SelectSeq(db, LAMBDA row : row.user_id = user_id)

Response(status_code, body) == [status |-> status_code, body |-> body]

\* `except Exception as e: ... raise HTTPException(500, detail)` around a try
\* body: HTTPException derives from Exception, so the clause also catches the
\* 4xx the body itself raised.  db.rollback() leaves the table as it was.
ExceptException(db, outcome, detail) ==
    IF outcome.raised
    THEN [db |-> db, resp |-> HTTPException(500, detail)]
    ELSE [db |-> outcome.db, resp |-> Response(200, outcome.value)]

\* get_user_progress, lines 22-36
get_user_progress(db, current_user) ==
    ExceptException(db,
        Returned(db, QueryUserProgress(db, current_user)),
        "Failed to fetch progress")

\* get_lesson_progress, lines 38-57
get_lesson_progress(db, lesson_id, current_user) ==
    LET progress_ == QueryProgress(db, current_user, lesson_id) IN
    ExceptException(db,
        IF progress_ = 0
        THEN Raised(HTTPException(404, "Progress not found"))
        ELSE Returned(db, db[progress_]),
        "Failed to fetch lesson progress")

\* create_progress as it would be were the row given the user_id of the
\* payload (progress_data.user_id).
CreateProgressForPayloadUser(db, progress_data, current_user) ==
    LET existing_progress ==
            QueryProgress(db, current_user, progress_data.lesson_id)
        new_progress ==
            NewProgress([user_id |-> progress_data.user_id,
                         lesson_id |-> progress_data.lesson_id,
                         percent_complete |-> progress_data.percent_complete,
                         is_completed |-> progress_data.is_completed])
        committed == InsertRow(db, new_progress)
    IN ExceptException(db,
        IF existing_progress # 0
        THEN Raised(HTTPException(400,
                 "Progress already exists for this lesson"))
        ELSE Returned(committed, committed[Len(committed)]),
        "Failed to create progress")

\* create_progress, lines 59-94.  The user_id of the payload is not read.
create_progress(db, progress_data, current_user) ==
    LET existing_progress ==
            QueryProgress(db, current_user, progress_data.lesson_id)
        new_progress ==
            NewProgress([user_id |-> current_user,
                         lesson_id |-> progress_data.lesson_id,
                         percent_complete |-> progress_data.percent_complete,
                         is_completed |-> progress_data.is_completed])
        committed == InsertRow(db, new_progress)
    IN ExceptException(db,
        IF existing_progress # 0
        THEN Raised(HTTPException(400,
                 "Progress already exists for this lesson"))
        ELSE Returned(committed, committed[Len(committed)]),
        "Failed to create progress")

RECURSIVE SetAttrs(_, _)
\* for field, value in update_data.items(): setattr(progress, field, value)
SetAttrs(obj, update_data) ==
    IF DOMAIN update_data = {} THEN obj
    ELSE LET field == CHOOSE f \in DOMAIN update_data : TRUE
             rest == [f \in DOMAIN update_data \ {field} |-> update_data[f]]
         IN SetAttrs(SetAttr(obj, field, update_data[field]), rest)

\* The fields of the schema ProgressUpdate, schemas/progress.py lines 16-26.
ProgressUpdateFields ==
    {"percent_complete", "accuracy_score", "fluency_score",
     "pronunciation_score", "time_spent_minutes", "xp_gained", "course_data",
     "learning_objectives", "strengths", "weaknesses"}

\* ProgressUpdate(**json).dict(exclude_unset=True): the declared fields the
\* request sent; pydantic ignores the keys the schema does not declare.
ProgressUpdate_dict(json) ==
    [field \in DOMAIN json \cap ProgressUpdateFields |-> json[field]]

\* update_progress, lines 96-127.  progress_data is
\* ProgressUpdate.dict(exclude_unset=True): the fields the request sent.
update_progress(db, lesson_id, progress_data, current_user) ==
    LET progress_ == QueryProgress(db, current_user, lesson_id) IN
    ExceptException(db,
        IF progress_ = 0
        THEN Raised(HTTPException(404, "Progress not found"))
        ELSE LET row == SetAttrs(db[progress_], progress_data)
             IN Returned(UpdateRow(db, row), row),
        "Failed to update progress")

\* The table after db.commit() of an object that was loaded (UPDATE) or
\* added (INSERT).
Commit(db, found, obj) ==
    IF found = 0 THEN InsertRow(db, obj) ELSE UpdateRow(db, obj)

\* save_session_data, lines 129-163
save_session_data(db, lesson_id, session_data, current_user) ==
    LET found == QueryProgress(db, current_user, lesson_id)
        progress_ ==
            IF found = 0
            THEN NewProgress([user_id |-> current_user,
                              lesson_id |-> lesson_id])
            ELSE db[found]
        updated == Progress_update_progress(progress_, session_data)
    IN ExceptException(db,
        IF updated.raised THEN updated
        ELSE Returned(Commit(db, found, updated.value),
                 [success |-> TRUE,
                  message |-> "Session data saved successfully"]),
        "Failed to save session data")

\* save_course_data, lines 165-199
save_course_data(db, lesson_id, course_data, current_user) ==
    LET found == QueryProgress(db, current_user, lesson_id)
        progress_ ==
            IF found = 0
            THEN NewProgress([user_id |-> current_user,
                              lesson_id |-> lesson_id])
            ELSE db[found]
    IN ExceptException(db,
        Returned(Commit(db, found,
                     Progress_save_course_data(progress_, course_data)),
                 [success |-> TRUE,
                  message |-> "Course data saved successfully"]),
        "Failed to save course data")

RECURSIVE SumColumn(_, _)
\* sum(p.column for p in rows)
SumColumn(rows, column) ==
    IF rows = <<>> THEN 0
    ELSE Head(rows)[column] + SumColumn(Tail(rows), column)

\* sum(1 for p in rows if p.is_completed)
CountCompleted(rows) == Len(SelectSeq(rows, LAMBDA p : p.is_completed))

\* max(p.streak_count for p in rows), rows not empty
MaxStreak(rows) ==
    CHOOSE m \in {rows[i].streak_count : i \in 1..Len(rows)} :
        \A i \in 1..Len(rows) : rows[i].streak_count <= m

\* a / b of two numbers, kept as the fraction
Fraction(a, b) == [num |-> a, den |-> b]

\* get_progress_statistics, lines 201-235
get_progress_statistics(db, current_user) ==
    LET user_progress == QueryUserProgress(db, current_user)
        total_lessons == Len(user_progress)
        completed_lessons == CountCompleted(user_progress)
        total_xp == SumColumn(user_progress, "total_xp")
        total_time == SumColumn(user_progress, "time_spent_minutes")
        accuracy == SumColumn(user_progress, "accuracy_score")
    IN ExceptException(db,
        IF user_progress = <<>>
        THEN Returned(db, [message |-> "No progress data found"])
        ELSE Returned(db,
                 [total_lessons |-> total_lessons,
                  completed_lessons |-> completed_lessons,
                  completion_rate |->
                      Fraction(completed_lessons * 100, total_lessons),
                  total_xp |-> total_xp,
                  total_time_minutes |-> total_time,
                  total_time_hours |-> Fraction(total_time, 60),
                  average_accuracy |-> Fraction(accuracy, total_lessons),
                  current_streak |-> MaxStreak(user_progress)]),
        "Failed to calculate statistics")

(***************************************************************************)
(* The router: app/api/progress.py decorators, app/main.py include_router  *)
(***************************************************************************)
\* The routes of progress.router in the order their decorators register
\* them, under the prefix of include_router(progress.router,
\* prefix="/progress").  A path is the sequence of its segments.
Routes ==
    << [method |-> "GET", path |-> <<"progress", "user", "progress">>,
        endpoint |-> "get_user_progress"],
       [method |-> "GET",
        path |-> <<"progress", "user", "progress", "{lesson_id}">>,
        endpoint |-> "get_lesson_progress"],
       [method |-> "POST", path |-> <<"progress", "user", "progress">>,
        endpoint |-> "create_progress"],
       [method |-> "PUT",
        path |-> <<"progress", "user", "progress", "{lesson_id}">>,
        endpoint |-> "update_progress"],
       [method |-> "POST",
        path |-> <<"progress", "user", "progress", "{lesson_id}", "session">>,
        endpoint |-> "save_session_data"],
       [method |-> "POST",
        path |-> <<"progress", "user", "progress", "{lesson_id}",
                   "course-data">>,
        endpoint |-> "save_course_data"],
       [method |-> "GET",
        path |-> <<"progress", "user", "progress", "statistics">>,
        endpoint |-> "get_progress_statistics"] >>

\* A path parameter matches any one segment ([^/]+); its conversion to the
\* declared type happens after the route is chosen.
PathMatches(pattern, path) ==
    /\ Len(pattern) = Len(path)
    /\ \A i \in 1..Len(path) :
          pattern[i] = "{lesson_id}" \/ pattern[i] = path[i]

\* Router dispatch: the first route whose path and method match (a full
\* match); else 405 when some route matches the path alone, else 404.
Dispatch(method, path) ==
    LET full == {i \in 1..Len(Routes) :
                    PathMatches(Routes[i].path, path)
                    /\ Routes[i].method = method}
        partial == {i \in 1..Len(Routes) : PathMatches(Routes[i].path, path)}
    IN IF full # {}
       THEN Routes[CHOOSE i \in full : \A j \in full : i <= j].endpoint
       ELSE IF partial # {} THEN "405" ELSE "404"

\* int(segment) for the segments requests carry; any other segment is not a
\* valid integer.
Numerals == ("1" :> 1) @@ ("2" :> 2)

\* The lesson_id: int path parameter of a route is its fourth segment: the
\* endpoint is called with the converted value when the segment is a valid
\* integer, and the request is answered 422 without calling it otherwise.
HasLessonId(path) == Len(path) >= 4 /\ path[4] \in DOMAIN Numerals
LessonOfPath(path) == Numerals[path[4]]
RequestValidationError(db) ==
    [db |-> db, resp |-> HTTPException(422, "value is not a valid integer")]

Methods == {"GET", "POST", "PUT"}
Segments == {"1", "2", "statistics"}
Paths ==
    {<<"progress", "user", "progress">>}
    \cup {<<"progress", "user", "progress", seg>> : seg \in Segments}
    \cup {<<"progress", "user", "progress", seg, "session">> : seg \in Segments}
    \cup {<<"progress", "user", "progress", seg, "course-data">> :
             seg \in Segments}
    \cup {<<"progress", "user">>}

ProgressCreateBodies ==
    [lesson_id : LessonIds, user_id : UserIds, percent_complete : {0},
     is_completed : {FALSE}]
\* JSON bodies of PUT requests; one carries a key the schema does not
\* declare.
ProgressUpdateBodies ==
    {[percent_complete |-> 100, xp_gained |-> 7],
     [percent_complete |-> 100, xp_gained |-> 7, user_id |-> 2]}
SessionDataBodies ==
    {[duration_minutes |-> 10, accuracy |-> 80, fluency |-> 70,
      pronunciation |-> 60, xp_earned |-> 5, lesson_completed |-> FALSE]}
CourseDataBodies ==
    {{<<"course_id", "c1">>, <<"course_name", "Spanish A1">>,
      <<"language", "es">>, <<"difficulty_level", "easy">>,
      <<"modules_completed", "[]">>, <<"current_module", "m1">>,
      <<"estimated_completion_time", "30">>, <<"custom_settings", "{}">>}}

\* Where the router sends each request the model makes.
RoutingTable == [r \in Methods \X Paths |-> Dispatch(r[1], r[2])]

\* The paths the router sends to `endpoint` when asked with `method`.
PathsTo(method, endpoint) ==
    {path \in Paths : RoutingTable[<<method, path>>] = endpoint}

\* The request (method, path, body) of the authenticated user is dispatched
\* to `endpoint`, which leaves the table and the response of `out`.
Serve(method, path, body, user, endpoint, out) ==
    /\ RoutingTable[<<method, path>>] = endpoint
    /\ prog_req' = [method |-> method, path |-> path, body |-> body,
                    user |-> user]
    /\ prog_endpoint' = endpoint
    /\ progress' = out.db
    /\ prog_resp' = out.resp
    /\ UNCHANGED not_prog_vars

\* The table holds at most MaxRows rows: a request that would insert one more
\* is not sent.
RoomFor(out) == Len(out.db) <= MaxRows

http_get_user_progress ==
    \E path \in PathsTo("GET", "get_user_progress"), user \in UserIds :
        Serve("GET", path, <<>>, user, "get_user_progress",
              get_user_progress(progress, user))

http_get_lesson_progress ==
    \E path \in PathsTo("GET", "get_lesson_progress"), user \in UserIds :
        Serve("GET", path, <<>>, user, "get_lesson_progress",
              IF HasLessonId(path)
              THEN get_lesson_progress(progress, LessonOfPath(path), user)
              ELSE RequestValidationError(progress))

http_create_progress ==
    \E path \in PathsTo("POST", "create_progress"), user \in UserIds, body \in ProgressCreateBodies :
        LET out == create_progress(progress, body, user) IN
        /\ RoomFor(out)
        /\ Serve("POST", path, body, user, "create_progress", out)

http_update_progress ==
    \E path \in PathsTo("PUT", "update_progress"), user \in UserIds, body \in ProgressUpdateBodies :
        Serve("PUT", path, body, user, "update_progress",
              IF HasLessonId(path)
              THEN update_progress(progress, LessonOfPath(path),
                                   ProgressUpdate_dict(body), user)
              ELSE RequestValidationError(progress))

http_save_session_data ==
    \E path \in PathsTo("POST", "save_session_data"), user \in UserIds, body \in SessionDataBodies :
        LET out == IF HasLessonId(path)
              THEN save_session_data(progress, LessonOfPath(path), body, user)
              ELSE RequestValidationError(progress)
        IN /\ \A i \in 1..Len(out.db) : out.db[i].session_count <= MaxSessions
           /\ RoomFor(out)
           /\ Serve("POST", path, body, user, "save_session_data", out)

http_save_course_data ==
    \E path \in PathsTo("POST", "save_course_data"), user \in UserIds, body \in CourseDataBodies :
        LET out == IF HasLessonId(path)
              THEN save_course_data(progress, LessonOfPath(path), body, user)
              ELSE RequestValidationError(progress)
        IN /\ RoomFor(out)
           /\ Serve("POST", path, body, user, "save_course_data", out)

\* No route matches the path (404), or none matches it with the method (405).
\* The router answers before any dependency runs: no user is authenticated.
http_no_route ==
    \E method \in Methods, code \in {"404", "405"} :
        \E path \in PathsTo(method, code) :
            Serve(method, path, <<>>, 0, code,
                  [db |-> progress,
                   resp |-> IF code = "404"
                            THEN HTTPException(404, "Not Found")
                            ELSE HTTPException(405, "Method Not Allowed")])

ProgressInit ==
    /\ progress = <<>>
    /\ prog_req = [method |-> "none", path |-> <<>>, body |-> <<>>,
                   user |-> 0]
    /\ prog_endpoint = "none"
    /\ prog_resp = NoResponse
    /\ inflight = [c \in Clients |-> NoneInFlight]

\* The progress endpoints are async def functions that never await: the event
\* loop of the one server process (uvicorn.run(app), main.py) runs each from
\* its first line to its response before it starts the next.
ProgressNext ==
    \/ http_get_user_progress
    \/ http_get_lesson_progress
    \/ http_create_progress
    \/ http_update_progress
    \/ http_save_session_data
    \/ http_save_course_data
    \/ http_no_route

(***************************************************************************)
(* Concurrent requests to the progress endpoints that write rows.          *)
(***************************************************************************)
\* The endpoints that insert rows, app/api/progress.py lines 59, 129, 165.
WritingEndpoints == {"create_progress", "save_session_data", "save_course_data"}

\* The bodies sent to each of them.
BodiesOf(endpoint, user) ==
    CASE endpoint = "create_progress" ->
            {body \in ProgressCreateBodies : body.user_id = user}
      [] endpoint = "save_session_data" -> SessionDataBodies
      [] endpoint = "save_course_data" -> CourseDataBodies

\* The endpoint function run on the table as it is now.
RunEndpoint(db, request) ==
    CASE request.endpoint = "create_progress" ->
            create_progress(db, request.body, request.user)
      [] request.endpoint = "save_session_data" ->
            save_session_data(db, LessonOfPath(request.path), request.body,
                              request.user)
      [] request.endpoint = "save_course_data" ->
            save_course_data(db, LessonOfPath(request.path), request.body,
                             request.user)

\* A request arrives and FastAPI resolves its dependencies (Depends(
\* get_current_user), Depends(get_db): a new session, made on the
\* threadpool).  The event loop may serve other requests before it calls
\* the endpoint function.
accept_request(c) ==
    /\ inflight[c] = NoneInFlight
    /\ \E endpoint \in WritingEndpoints, user \in UserIds :
          \E path \in PathsTo("POST", endpoint),
             body \in BodiesOf(endpoint, user) :
              /\ endpoint # "create_progress" => HasLessonId(path)
              /\ inflight' = [inflight EXCEPT ![c] =
                                 [endpoint |-> endpoint, path |-> path,
                                  body |-> body, user |-> user]]
    /\ UNCHANGED <<prog_vars, not_prog_vars_but_inflight>>

\* The event loop calls the endpoint function of an accepted request.  The
\* function never awaits: query, insert and commit run before any other
\* request does.
run_endpoint(c) ==
    /\ inflight[c] # NoneInFlight
    /\ LET request == inflight[c]
           out == RunEndpoint(progress, request)
       IN /\ RoomFor(out)
          /\ \A i \in 1..Len(out.db) :
                out.db[i].session_count <= MaxSessions
          /\ progress' = out.db
          /\ prog_req' = [method |-> "POST", path |-> request.path,
                          body |-> request.body, user |-> request.user]
          /\ prog_endpoint' = request.endpoint
          /\ prog_resp' = out.resp
    /\ inflight' = [inflight EXCEPT ![c] = NoneInFlight]
    /\ UNCHANGED not_prog_vars_but_inflight

ConcurrentNext ==
    \E c \in Clients :
        \/ accept_request(c)
        \/ run_endpoint(c)

(***************************************************************************)
(* app/services/gamification_engine.py                                     *)
(***************************************************************************)
\* JSON values a caller passes in a dict: a number, or a string.
Num(n) == [type |-> "int", val |-> n, text |-> ""]
Str(text) == [type |-> "str", val |-> 0, text |-> text]

\* dict.get(key, default)
Get(dict, key, default) == IF key \in DOMAIN dict THEN dict[key] ELSE default

EmptyDict == [key \in {} |-> 0]

\* The methods the class GamificationEngine defines, lines 41-497.
GamificationEngineMethods ==
    {"__init__", "_initialize_achievements", "calculate_xp_reward",
     "check_achievements", "update_streak", "generate_leaderboard",
     "create_personalized_challenges", "generate_motivation_content",
     "_get_base_xp", "_calculate_performance_multiplier",
     "_calculate_consistency_bonus", "_get_streak_multiplier"}

\* self.<name>(...) for a method the class may not define: the attribute
\* lookup raises AttributeError when it does not.
SelfMethod(name, message) ==
    IF name \in GamificationEngineMethods
    THEN Value(name)
    ELSE Raised(AttributeError(message))

\* _initialize_achievements, lines 46-177: id, reward and criteria of each
\* achievement, in the order of the dict.
achievements_catalog ==
    << [id |-> "first_lesson", xp_reward |-> 50,
        criteria |-> [lessons_completed |-> 1]],
       [id |-> "streak_3", xp_reward |-> 100, criteria |-> [streak_days |-> 3]],
       [id |-> "streak_7", xp_reward |-> 250, criteria |-> [streak_days |-> 7]],
       [id |-> "streak_30", xp_reward |-> 1000,
        criteria |-> [streak_days |-> 30]],
       [id |-> "streak_100", xp_reward |-> 5000,
        criteria |-> [streak_days |-> 100]],
       [id |-> "pronunciation_pro", xp_reward |-> 300,
        criteria |-> [pronunciation_scores_90_plus |-> 10]],
       [id |-> "fluency_master", xp_reward |-> 500,
        criteria |-> [max_fluency_score |-> 95]],
       [id |-> "level_up", xp_reward |-> 400, criteria |-> [level |-> 10]],
       [id |-> "xp_collector", xp_reward |-> 1000,
        criteria |-> [total_xp |-> 10000]],
       [id |-> "helpful_friend", xp_reward |-> 300,
        criteria |-> [friends_helped |-> 5]],
       [id |-> "community_leader", xp_reward |-> 750,
        criteria |-> [leaderboard_top10_days |-> 7]],
       [id |-> "grammar_guru", xp_reward |-> 600,
        criteria |-> [perfect_grammar_scores |-> 20]],
       [id |-> "conversation_champion", xp_reward |-> 800,
        criteria |-> [conversation_exercises |-> 50]] >>

\* _get_base_xp, lines 444-455
_get_base_xp(activity_type) ==
    LET xp_values == [lesson_completion |-> 50, pronunciation_practice |-> 30,
                      conversation_practice |-> 40, grammar_exercise |-> 25,
                      vocabulary_drill |-> 20, listening_comprehension |-> 35,
                      speaking_assessment |-> 45]
    IN Get(xp_values, activity_type, 20)

\* _calculate_performance_multiplier, lines 457-470.  The multipliers are
\* kept in tenths (2.0 is 20).  Comparing a string score with a number raises
\* TypeError.
_calculate_performance_multiplier(performance_data) ==
    LET score == Get(performance_data, "score", Num(50)) IN
    IF score.type # "int"
    THEN Raised(TypeError(
             "'>=' not supported between instances of 'str' and 'int'"))
    ELSE Value(IF score.val >= 95 THEN 20
               ELSE IF score.val >= 85 THEN 15
               ELSE IF score.val >= 70 THEN 12
               ELSE IF score.val >= 50 THEN 10
               ELSE 8)

\* _calculate_consistency_bonus, lines 472-482: consistency_days is the
\* literal 5 of line 475.
_calculate_consistency_bonus(self, user_id) ==
    LET consistency_days == 5 IN
    Value(IF consistency_days >= 7 THEN 50
          ELSE IF consistency_days >= 3 THEN 25
          ELSE 0)

\* The streak multiplier (in tenths) of a streak, lines 488-497.
StreakTier(current_streak) ==
    IF current_streak >= 30 THEN 20
    ELSE IF current_streak >= 14 THEN 15
    ELSE IF current_streak >= 7 THEN 13
    ELSE IF current_streak >= 3 THEN 11
    ELSE 10

\* _get_streak_multiplier as it would be with
\* current_streak = self.user_stats[user_id]["current_streak"] for line 486.
StreakMultiplierFromUserStats(self, user_id) ==
    IF user_id \in DOMAIN self.user_stats
    THEN Value(StreakTier(self.user_stats[user_id].current_streak))
    ELSE Raised(KeyError(user_id))

\* _get_streak_multiplier, lines 484-497: current_streak is the literal 5 of
\* line 486.
_get_streak_multiplier(self, user_id) ==
    LET current_streak == 5 IN Value(StreakTier(current_streak))

\* int(base_xp * performance_multiplier * streak_multiplier), line 193, with
\* both multipliers in tenths.  (For every entry of the tables the float
\* product truncates to the same integer as the exact one.)
IntOfProduct(base_xp, performance_tenths, streak_tenths) ==
    (base_xp * performance_tenths * streak_tenths) \div 100

RECURSIVE SumValues(_)
\* sum(d.values())
SumValues(dict) ==
    IF DOMAIN dict = {} THEN 0
    ELSE LET key == CHOOSE k \in DOMAIN dict : TRUE IN
         dict[key] + SumValues([k \in DOMAIN dict \ {key} |-> dict[k]])

\* The try body of calculate_xp_reward, lines 185-213: what it returns, or
\* the exception it raises.  _check_special_bonuses (line 196) is not a method
\* of the class.
calculate_xp_reward_try(self, activity_type, performance_data, user_id) ==
    LET base_xp == _get_base_xp(activity_type)
        performance_multiplier ==
            _calculate_performance_multiplier(performance_data)
        consistency_bonus == _calculate_consistency_bonus(self, user_id)
        streak_multiplier == _get_streak_multiplier(self, user_id)
        total_xp == IntOfProduct(base_xp, performance_multiplier.value,
                                 streak_multiplier.value)
                    + consistency_bonus.value
        special_bonuses ==
            SelfMethod("_check_special_bonuses",
                "'GamificationEngine' object has no attribute '_check_special_bonuses'")
    IN IF performance_multiplier.raised THEN performance_multiplier
       ELSE IF consistency_bonus.raised THEN consistency_bonus
       ELSE IF streak_multiplier.raised THEN streak_multiplier
       ELSE IF special_bonuses.raised THEN special_bonuses
       ELSE Value([base_xp |-> base_xp,
                   performance_multiplier |-> performance_multiplier.value,
                   streak_multiplier |-> streak_multiplier.value,
                   consistency_bonus |-> consistency_bonus.value,
                   special_bonuses |-> special_bonuses.value,
                   total_xp |-> total_xp + SumValues(special_bonuses.value),
                   activity_type |-> activity_type,
                   calculation_details |->
                       [performance_score |->
                            Get(performance_data, "score", Num(0)),
                        time_spent |->
                            Get(performance_data, "duration", Num(0)),
                        difficulty |->
                            Get(performance_data, "difficulty",
                                Str("medium"))]])

\* The try body of check_achievements, lines 224-237.
\* _is_achievement_unlocked (line 229) is not a method of the class.
check_achievements_try(self, user_id, stats) ==
    IF achievements_catalog = <<>> THEN Value(<<>>)
    ELSE SelfMethod("_is_achievement_unlocked",
             "'GamificationEngine' object has no attribute '_is_achievement_unlocked'")

\* The try body of update_streak, lines 248-279.  _get_current_streak
\* (line 254) is not a method of the class, nor is any helper after it.
update_streak_try(self, user_id, activity_date, clock) ==
    LET date == IF activity_date = 0 THEN clock ELSE activity_date IN
    SelfMethod("_get_current_streak",
        "'GamificationEngine' object has no attribute '_get_current_streak'")

\* The try body of generate_leaderboard, lines 291-318.
\* _fetch_leaderboard_data (line 294) is not a method of the class.
generate_leaderboard_try(self, leaderboard_type, user_id) ==
    SelfMethod("_fetch_leaderboard_data",
        "'GamificationEngine' object has no attribute '_fetch_leaderboard_data'")

\* The consistency and the social challenge, lines 360-394.
StreakChallenge(user_id, current_streak) ==
    [id |-> <<"streak_challenge", user_id>>, name |-> "Weekly Consistency",
     type |-> "consistency", target |-> 7, duration |-> 7,
     rewards |-> [xp |-> 500, badge |-> "consistency_champion"],
     progress_tracking |-> [current |-> current_streak, required |-> 7]]

SocialChallenge(user_id) ==
    [id |-> <<"social_challenge", user_id>>, name |-> "Community Learner",
     type |-> "social", target |-> 3, duration |-> 14,
     rewards |-> [xp |-> 200, badge |-> "community_member"],
     progress_tracking |-> [current |-> 0, required |-> 3]]

\* The try body of create_personalized_challenges, lines 330-396.  The loop
\* over weak_areas[:2] calls _calculate_challenge_target (line 346), which is
\* not a method of the class; `current_streak < 7` raises TypeError for a
\* string.
create_personalized_challenges_try(self, user_id, user_profile) ==
    LET weak_areas == Get(user_profile, "weak_areas", <<>>)
        current_streak == Get(user_profile, "current_streak", Num(0))
    IN IF weak_areas # <<>>
       THEN SelfMethod("_calculate_challenge_target",
                "'GamificationEngine' object has no attribute '_calculate_challenge_target'")
       ELSE IF current_streak.type # "int"
       THEN Raised(TypeError(
                "'<' not supported between instances of 'str' and 'int'"))
       ELSE Value(IF current_streak.val < 7
                  THEN <<StreakChallenge(user_id, current_streak.val),
                         SocialChallenge(user_id)>>
                  ELSE <<SocialChallenge(user_id)>>)

\* The try body of generate_motivation_content, lines 408-437.
\* _analyze_motivation_state (line 411) is not a method of the class.
generate_motivation_content_try(self, user_id, current_performance) ==
    SelfMethod("_analyze_motivation_state",
        "'GamificationEngine' object has no attribute '_analyze_motivation_state'")

\* What the except clause of each public method returns, lines 215-217,
\* 239-241, 281-283, 320-322, 398-400 and 439-441; str(e) is the message.
Fallback(method, e) ==
    CASE method = "calculate_xp_reward" -> [total_xp |-> 10, error |-> e.msg]
      [] method = "check_achievements" -> <<>>
      [] method = "update_streak" -> [current_streak |-> 1, error |-> e.msg]
      [] method = "generate_leaderboard" -> [error |-> e.msg]
      [] method = "create_personalized_challenges" -> <<>>
      [] method = "generate_motivation_content" -> [error |-> e.msg]

\* try ... except as it would be with `except ValueError as e:`.
ExceptValueErrorOnly(method, outcome) ==
    IF outcome.raised /\ outcome.exc.type = "ValueError"
    THEN Value(Fallback(method, outcome.exc))
    ELSE outcome

\* try ... `except Exception as e:` of a public method: whatever the body
\* raised, the method logs it and returns its fallback.
TryExcept(method, outcome) ==
    IF outcome.raised THEN Value(Fallback(method, outcome.exc)) ELSE outcome

\* calculate_xp_reward, lines 179-217
calculate_xp_reward(self, activity_type, performance_data, user_id) ==
    TryExcept("calculate_xp_reward",
        calculate_xp_reward_try(self, activity_type, performance_data,
                                user_id))

\* check_achievements, lines 219-241
check_achievements(self, user_id, stats) ==
    TryExcept("check_achievements", check_achievements_try(self, user_id, stats))

\* update_streak, lines 243-283; activity_date 0 is None
update_streak(self, user_id, activity_date, clock) ==
    TryExcept("update_streak",
        update_streak_try(self, user_id, activity_date, clock))

\* generate_leaderboard, lines 285-322
generate_leaderboard(self, leaderboard_type, user_id) ==
    TryExcept("generate_leaderboard",
        generate_leaderboard_try(self, leaderboard_type, user_id))

\* create_personalized_challenges, lines 324-400
create_personalized_challenges(self, user_id, user_profile) ==
    TryExcept("create_personalized_challenges",
        create_personalized_challenges_try(self, user_id, user_profile))

\* generate_motivation_content, lines 402-441
generate_motivation_content(self, user_id, current_performance) ==
    TryExcept("generate_motivation_content",
        generate_motivation_content_try(self, user_id, current_performance))

(***************************************************************************)
(* Calls of the global gamification_engine                                 *)
(***************************************************************************)
EngineUsers == {"u1", "u2"}
ActivityTypes == {"lesson_completion", "general"}
PerformanceSamples ==
    {EmptyDict, [score |-> Num(95)], [score |-> Num(40)],
     [score |-> Str("high")]}
\* The stats get_gamification_profile passes (advanced_analytics.py), and
\* profiles with the keys create_personalized_challenges reads.
ProfileStats ==
    [total_xp |-> 5000, current_level |-> 12, streak_days |-> 15,
     lessons_completed |-> 45, achievements_unlocked |-> 8]
ProfileSamples ==
    {ProfileStats, [current_streak |-> Num(7)], [current_streak |-> Str("7")],
     [weak_areas |-> <<"grammar">>]}
LeaderboardTypes == {"weekly"}

\* The engine object the methods read: its two dictionaries.
Self == [user_stats |-> user_stats, leaderboards |-> leaderboards]

\* A public method was called with `args` and ended as `outcome`.  No public
\* method assigns user_stats or leaderboards.
Called(method, args, outcome) ==
    /\ eng_call' = [method |-> method, args |-> args]
    /\ eng_result' = outcome
    /\ UNCHANGED <<user_stats, leaderboards, now, not_eng_vars>>

\* Another call ran since the remembered calculate_xp_reward call.
OtherCallAfterSeen ==
    xp_seen' = IF xp_seen.set THEN [xp_seen EXCEPT !.between = TRUE]
               ELSE xp_seen

CalculateXpReward ==
    \E activity_type \in ActivityTypes, performance_data \in PerformanceSamples,
       user_id \in EngineUsers :
        LET args == <<activity_type, performance_data, user_id>>
            outcome == calculate_xp_reward(Self, activity_type,
                                           performance_data, user_id)
        IN /\ Called("calculate_xp_reward", args, outcome)
           /\ \/ xp_seen' = [set |-> TRUE, args |-> args, result |-> outcome,
                             between |-> FALSE]
              \/ UNCHANGED xp_seen

CheckAchievements ==
    \E user_id \in EngineUsers, stats \in {ProfileStats} :
        /\ Called("check_achievements", <<user_id, stats>>,
                  check_achievements(Self, user_id, stats))
        /\ OtherCallAfterSeen

UpdateStreak ==
    \E user_id \in EngineUsers, activity_date \in 0..MaxDay :
        /\ Called("update_streak", <<user_id, activity_date>>,
                  update_streak(Self, user_id, activity_date, now))
        /\ OtherCallAfterSeen

GenerateLeaderboard ==
    \E leaderboard_type \in LeaderboardTypes,
       user_id \in EngineUsers \cup {"None"} :
        /\ Called("generate_leaderboard", <<leaderboard_type, user_id>>,
                  generate_leaderboard(Self, leaderboard_type, user_id))
        /\ OtherCallAfterSeen

CreatePersonalizedChallenges ==
    \E user_id \in EngineUsers, user_profile \in ProfileSamples :
        /\ Called("create_personalized_challenges", <<user_id, user_profile>>,
                  create_personalized_challenges(Self, user_id, user_profile))
        /\ OtherCallAfterSeen

GenerateMotivationContent ==
    \E user_id \in EngineUsers, current_performance \in {ProfileStats} :
        /\ Called("generate_motivation_content",
                  <<user_id, current_performance>>,
                  generate_motivation_content(Self, user_id,
                                              current_performance))
        /\ OtherCallAfterSeen

\* A day passes.
Tick ==
    /\ now < MaxDay
    /\ now' = now + 1
    /\ UNCHANGED <<user_stats, leaderboards, eng_call, eng_result, xp_seen,
                   not_eng_vars>>

\* GamificationEngine.__init__, lines 41-44
EngineInit ==
    /\ user_stats = EmptyDict
    /\ leaderboards = EmptyDict
    /\ now = 1
    /\ eng_call = [method |-> "none", args |-> <<>>]
    /\ eng_result = Value(<<>>)
    /\ xp_seen = [set |-> FALSE, args |-> <<>>, result |-> Value(<<>>),
                  between |-> FALSE]

EngineNext ==
    \/ CalculateXpReward
    \/ CheckAchievements
    \/ UpdateStreak
    \/ GenerateLeaderboard
    \/ CreatePersonalizedChallenges
    \/ GenerateMotivationContent
    \/ Tick

(***************************************************************************)
(* app/services/production_learning_engine.py                              *)
(***************************************************************************)
ValueError(msg) == [type |-> "ValueError", msg |-> msg]

\* class LanguageLevel(Enum), real_ai_models.py lines 27-33: the member name
\* and its value.
LanguageLevel ==
    [A1 |-> [name |-> "A1", value |-> "beginner"],
     A2 |-> [name |-> "A2", value |-> "elementary"],
     B1 |-> [name |-> "B1", value |-> "intermediate"],
     B2 |-> [name |-> "B2", value |-> "upper_intermediate"],
     C1 |-> [name |-> "C1", value |-> "advanced"],
     C2 |-> [name |-> "C2", value |-> "proficient"]]

\* The list ["A1", "A2", "B1", "B2", "C1", "C2"] of lines 318 and 351.
LevelNames == <<"A1", "A2", "B1", "B2", "C1", "C2">>

\* list.index(x): the 0-based position of x, ValueError when x is not in the
\* list.
ListIndex(list, x) ==
    IF \E i \in 1..Len(list) : list[i] = x
    THEN Value((CHOOSE i \in 1..Len(list) :
                   /\ list[i] = x
                   /\ \A j \in 1..(i - 1) : list[j] # x) - 1)
    ELSE Raised(ValueError(<<x, "is not in list">>))

\* An assessment is a dict with the optional keys "scores" (skill -> score,
\* kept as a list of pairs in insertion order, scores in tenths), "goals" (a
\* list) and "preferences" (a dict of flags).
RECURSIVE SumScores(_)
\* sum of scores.values(), in tenths
SumScores(scores) ==
    IF scores = <<>> THEN 0 ELSE scores[1][2] + SumScores(Tail(scores))

\* _assess_initial_level, lines 214-233.  avg_score >= t/10 is
\* sum >= t * len in tenths; an empty scores dict gives 0.5.
_assess_initial_level(assessment) ==
    LET scores == Get(assessment, "scores", <<>>)
        total == IF scores # <<>> THEN SumScores(scores) ELSE 5
        count == IF scores # <<>> THEN Len(scores) ELSE 1
    IN IF total >= 9 * count THEN LanguageLevel.C2
       ELSE IF total >= 8 * count THEN LanguageLevel.C1
       ELSE IF total >= 7 * count THEN LanguageLevel.B2
       ELSE IF total >= 6 * count THEN LanguageLevel.B1
       ELSE IF total >= 5 * count THEN LanguageLevel.A2
       ELSE LanguageLevel.A1

\* goal_mapping, lines 241-248: LearningObjective members by their value.
goal_mapping ==
    [speak_fluently |-> "fluency",
     improve_pronunciation |-> "pronunciation",
     expand_vocabulary |-> "vocabulary",
     master_grammar |-> "grammar",
     build_confidence |-> "confidence",
     speak_accurately |-> "accuracy"]

\* _identify_learning_objectives, lines 235-265.  list(set(objectives)) has
\* no defined order, so the objectives are kept as a set.
_identify_learning_objectives(assessment) ==
    LET goals == Get(assessment, "goals", <<>>)
        scores == Get(assessment, "scores", <<>>)
    IN {goal_mapping[goals[i]] :
            i \in {j \in 1..Len(goals) : goals[j] \in DOMAIN goal_mapping}}
       \cup {scores[i][1] :
            i \in {j \in 1..Len(scores) :
                      /\ scores[j][2] < 6
                      /\ scores[j][1] \in {"pronunciation", "vocabulary",
                                           "grammar"}}}

\* The skills of `scores` whose score is in `wanted`, in the order of the
\* dict (the two loops of lines 274-278).
RECURSIVE SkillsScoring(_, _)
SkillsScoring(scores, wanted) ==
    IF scores = <<>> THEN <<>>
    ELSE (IF scores[1][2] \in wanted THEN <<scores[1][1]>> ELSE <<>>)
         \o SkillsScoring(Tail(scores), wanted)

\* _analyze_strengths_weaknesses, lines 267-280
_analyze_strengths_weaknesses(assessment) ==
    LET scores == Get(assessment, "scores", <<>>)
    IN [strengths |-> SkillsScoring(scores, 8..10),
        weaknesses |-> SkillsScoring(scores, 0..5)]

\* _identify_learning_style, lines 282-293
_identify_learning_style(assessment) ==
    LET preferences == Get(assessment, "preferences", EmptyDict)
    IN IF Get(preferences, "visual_learner", FALSE) THEN "visual"
       ELSE IF Get(preferences, "auditory_learner", FALSE) THEN "auditory"
       ELSE IF Get(preferences, "kinesthetic_learner", FALSE)
            THEN "kinesthetic"
       ELSE "mixed"

\* _calculate_target_level, lines 308-320
_calculate_target_level(profile) ==
    LET objectives == profile.learning_objectives
        current_index == ListIndex(LevelNames, profile.current_level.value)
    IN IF "fluency" \in objectives THEN Value("C1")
       ELSE IF "accuracy" \in objectives THEN Value("B2")
       ELSE IF current_index.raised THEN current_index
       ELSE Value(LevelNames[IF current_index.value + 1 < Len(LevelNames) - 1
                             THEN current_index.value + 2
                             ELSE Len(LevelNames)])

\* _get_activities_for_skill, lines 554-564
_get_activities_for_skill(skill) ==
    Get([pronunciation |->
             <<"phonetic_drills", "minimal_pairs", "rhythm_practice">>,
         grammar |->
             <<"structure_drills", "error_correction", "pattern_practice">>,
         vocabulary |->
             <<"word_association", "contextual_usage", "collocations">>,
         listening |->
             <<"audio_comprehension", "dictation", "accent_training">>,
         speaking |->
             <<"conversation_practice", "monologue_tasks", "role_plays">>],
        skill, <<"general_practice">>)

\* _get_activities_for_objective, lines 566-577
_get_activities_for_objective(objective) ==
    Get([fluency |-> <<"free_conversation", "storytelling", "debates">>,
         accuracy |->
             <<"precision_drills", "error_analysis", "self_correction">>,
         pronunciation |->
             <<"phonetic_training", "accent_reduction", "intonation">>,
         vocabulary |->
             <<"word_building", "semantic_mapping", "usage_practice">>,
         grammar |->
             <<"structure_analysis", "transformation_drills",
               "error_correction">>,
         confidence |->
             <<"speaking_practice", "presentation_skills",
               "social_interaction">>],
        objective, <<"general_practice">>)

\* _generate_learning_path, lines 322-344: a phase per weakness, in order,
\* then a phase per objective (kept as a set, like the objectives).
_generate_learning_path(profile) ==
    [weaknesses |->
         [i \in 1..Len(profile.weaknesses) |->
             [phase |-> <<"strengthen", profile.weaknesses[i]>>,
              focus |-> profile.weaknesses[i],
              duration_weeks |-> 4,
              activities |->
                  _get_activities_for_skill(profile.weaknesses[i])]],
     objectives |->
         {[phase |-> <<"develop", objective>>,
           focus |-> objective,
           duration_weeks |-> 6,
           activities |-> _get_activities_for_objective(objective)] :
              objective \in profile.learning_objectives}]

\* _get_level_criteria, lines 579-589
_get_level_criteria(level) ==
    Get([A2 |-> <<"Express simple ideas clearly",
                  "Use basic grammar correctly",
                  "Understand common phrases">>,
         B1 |-> <<"Participate in conversations", "Express opinions",
                  "Handle routine tasks">>,
         B2 |-> <<"Discuss complex topics", "Express ideas fluently",
                  "Understand native speakers">>,
         C1 |-> <<"Express ideas spontaneously", "Use language flexibly",
                  "Understand implicit meaning">>,
         C2 |-> <<"Express ideas effortlessly", "Master complex grammar",
                  "Understand everything">>],
        level, <<"Continue practicing">>)

\* The milestones of the levels after the 0-based current_index, lines
\* 354-360.
MilestonesAfter(current_index) ==
    [k \in 1..(Len(LevelNames) - current_index - 1) |->
        [level |-> LevelNames[current_index + 1 + k],
         description |-> <<"Achieve", LevelNames[current_index + 1 + k],
                           "proficiency">>,
         criteria |-> _get_level_criteria(LevelNames[current_index + 1 + k]),
         estimated_weeks |-> k * 12]]

\* _define_milestones, lines 346-362: levels.index(profile.current_level.value)
_define_milestones(profile) ==
    LET current_index == ListIndex(LevelNames, profile.current_level.value)
    IN IF current_index.raised THEN current_index
       ELSE Value(MilestonesAfter(current_index.value))

\* _estimate_pathway_duration, lines 364-374
_estimate_pathway_duration(profile) ==
    24 + Len(profile.weaknesses) * 4
       + Cardinality(profile.learning_objectives) * 2

\* _create_personalized_pathway, lines 295-306: the dict display evaluates
\* its values in order, and the first that raises ends the method before
\* line 306 stores anything.
_create_personalized_pathway(self, profile) ==
    LET target_level == _calculate_target_level(profile)
        milestones == _define_milestones(profile)
    IN IF target_level.raised
       THEN [self |-> self, outcome |-> target_level]
       ELSE IF milestones.raised
       THEN [self |-> self, outcome |-> milestones]
       ELSE [self |->
                 [self EXCEPT !.learning_pathways =
                     (profile.user_id :>
                         [user_id |-> profile.user_id,
                          current_level |-> profile.current_level.value,
                          target_level |-> target_level.value,
                          learning_path |-> _generate_learning_path(profile),
                          milestones |-> milestones.value,
                          estimated_duration |->
                              _estimate_pathway_duration(profile)])
                     @@ self.learning_pathways],
             outcome |-> Value("None")]

\* create_student_profile, lines 56-100: the profile is stored (line 90)
\* before the pathway is created (line 93); `except Exception: raise` passes
\* on whatever the body raised.  motivation_level is in tenths.
create_student_profile(self, user_id, initial_assessment, clock) ==
    LET strengths_weaknesses ==
            _analyze_strengths_weaknesses(initial_assessment)
        profile ==
            [user_id |-> user_id,
             current_level |-> _assess_initial_level(initial_assessment),
             learning_objectives |->
                 _identify_learning_objectives(initial_assessment),
             strengths |-> strengths_weaknesses.strengths,
             weaknesses |-> strengths_weaknesses.weaknesses,
             learning_style |-> _identify_learning_style(initial_assessment),
             motivation_level |-> 8,
             consistency_score |-> 0,
             time_invested |-> 0,
             last_activity |-> clock]
        stored == [self EXCEPT !.student_profiles =
                      (user_id :> profile) @@ self.student_profiles]
        pathway == _create_personalized_pathway(stored, profile)
    IN IF pathway.outcome.raised
       THEN pathway
       ELSE [self |-> pathway.self, outcome |-> Value(profile)]

\* Initial assessments callers send.
AssessmentSamples ==
    {EmptyDict,
     [scores |-> << <<"pronunciation", 4>> >>],
     [scores |-> << <<"pronunciation", 9>>, <<"grammar", 9>> >>,
      goals |-> <<"speak_fluently">>,
      preferences |-> [visual_learner |-> TRUE]],
     [scores |-> << <<"grammar", 7>>, <<"listening", 5>> >>,
      goals |-> <<"speak_accurately", "travel">>,
      preferences |-> [auditory_learner |-> TRUE]]}

\* The engine object: its two dictionaries the method writes.
LearningEngineSelf ==
    [student_profiles |-> student_profiles,
     learning_pathways |-> learning_pathways]

\* production_learning_engine.create_student_profile(user_id, assessment)
CreateStudentProfile ==
    \E user_id \in EngineUsers, initial_assessment \in AssessmentSamples :
        LET done == create_student_profile(LearningEngineSelf, user_id,
                                           initial_assessment, now)
        IN /\ student_profiles' = done.self.student_profiles
           /\ learning_pathways' = done.self.learning_pathways
           /\ ple_call' = [method |-> "create_student_profile",
                           args |-> <<user_id, initial_assessment>>]
           /\ ple_result' = done.outcome
           /\ UNCHANGED <<ai_models, ai_started, ai_loading, ai_resp,
                         not_prod_vars>>

(***************************************************************************)
(* app/services/real_ai_models.py, app/api/production_endpoints.py         *)
(***************************************************************************)
\* RealAIModels.__init__, lines 53-59
NewRealAIModels ==
    [whisper_model |-> "None", grammar_model |-> "None",
     sentence_transformer |-> "None", nlp |-> "None",
     speech_recognizer |-> "None", models_loaded |-> FALSE]

\* What loading may do on a host: every library call succeeds, or one of
\* them raises (no weights, no network, no memory); spacy.load may raise the
\* OSError the inner try handles, or something else.
LoadResults ==
    {"ok", "whisper", "pipeline", "SentenceTransformer", "spacy_OSError",
     "spacy", "Recognizer"}

LoadError(call) == [type |-> "Exception", msg |-> call]

\* initialize_production_models, lines 61-99.  The method has no return
\* statement: when it completes it returns None.
initialize_production_models(self, load_result) ==
    LET whisper_loaded == [self EXCEPT !.whisper_model = "loaded"]
        grammar_loaded == [whisper_loaded EXCEPT !.grammar_model = "loaded"]
        transformer_loaded ==
            [grammar_loaded EXCEPT !.sentence_transformer = "loaded"]
        nlp_loaded ==
            [transformer_loaded EXCEPT
                !.nlp = IF load_result = "spacy_OSError" THEN "None" ELSE "loaded"]
        all_loaded == [nlp_loaded EXCEPT !.speech_recognizer = "loaded",
                                         !.models_loaded = TRUE]
    IN CASE load_result = "whisper" ->
                [self |-> self, outcome |-> Raised(LoadError(load_result))]
         [] load_result = "pipeline" ->
                [self |-> whisper_loaded, outcome |-> Raised(LoadError(load_result))]
         [] load_result = "SentenceTransformer" ->
                [self |-> grammar_loaded, outcome |-> Raised(LoadError(load_result))]
         [] load_result = "spacy" ->
                [self |-> transformer_loaded,
                 outcome |-> Raised(LoadError(load_result))]
         [] load_result = "Recognizer" ->
                [self |-> nlp_loaded, outcome |-> Raised(LoadError(load_result))]
         [] OTHER -> [self |-> all_loaded, outcome |-> Value("None")]

\* bool(x) of what initialize_production_models returns
Truthy(value) == value # "None"

\* str(e) of the exception the except clause caught.  For an HTTPException
\* it is "<status>: <detail>" or empty, by the version of Starlette.
StrOfException(e) ==
    IF IsHTTPException(e)
    THEN {<<e.status, e.detail>>, <<>>}
    ELSE {<<e.msg>>}

\* The try body of initialize_ai_models, lines 21-39
initialize_ai_models_try(loaded) ==
    IF loaded.outcome.raised THEN loaded.outcome
    ELSE IF Truthy(loaded.outcome.value)
    THEN Value([success |-> TRUE,
                message |-> "AI models initialized successfully",
                models_loaded |-> <<"whisper_speech_recognition",
                                    "grammar_analysis",
                                    "sentence_transformer",
                                    "nlp_processing">>])
    ELSE Raised(HTTPException(500, "Failed to initialize AI models"))

\* initialize_ai_models, lines 15-43: the responses the endpoint may send
\* when loading went as `loaded`.  The timestamp of line 36 is the clock.
initialize_ai_models(loaded, clock) ==
    LET body == initialize_ai_models_try(loaded)
    IN IF body.raised
       THEN {HTTPException(500, detail) : detail \in StrOfException(body.exc)}
       ELSE {Response(200, body.value @@ [timestamp |-> clock])}

\* lifespan, main.py lines 16-37: the application loads the models once when
\* it starts, and starts whether or not that worked.
Lifespan ==
    /\ ~ai_started
    /\ \E load_result \in LoadResults :
          ai_models' =
              initialize_production_models(ai_models, load_result).self
    /\ ai_started' = TRUE
    /\ UNCHANGED <<student_profiles, learning_pathways, ple_call, ple_result,
                   ai_loading, ai_resp, not_prod_vars>>

\* POST /production/initialize-ai-models
InitializeAiModels ==
    /\ ai_started
    /\ \E load_result \in LoadResults :
          LET loaded == initialize_production_models(ai_models, load_result)
          IN /\ ai_models' = loaded.self
             /\ ai_loading' = load_result
             /\ ai_resp' \in initialize_ai_models(loaded, now)
    /\ UNCHANGED <<student_profiles, learning_pathways, ple_call, ple_result,
                   ai_started, not_prod_vars>>

\* ProductionLearningEngine.__init__, lines 50-54, and RealAIModels.__init__
ProductionInit ==
    /\ student_profiles = EmptyDict
    /\ learning_pathways = EmptyDict
    /\ ple_call = [method |-> "none", args |-> <<>>]
    /\ ple_result = Value("None")
    /\ ai_models = NewRealAIModels
    /\ ai_started = FALSE
    /\ ai_loading = "none"
    /\ ai_resp = NoResponse

ProductionNext ==
    \/ CreateStudentProfile
    \/ Lifespan
    \/ InitializeAiModels
    \/ Tick

(***************************************************************************)
(* app/utils/helpers.py, app/api/upload.py                                 *)
(***************************************************************************)
\* os.path.splitext(file.filename): a filename is kept as its root and its
\* extension (the last dot and what follows, "" when there is none).
splitext(filename) == <<filename.root, filename.ext>>

\* str.lower() on the extensions of the samples
lower(text) ==
    CASE text = ".WAV" -> ".wav"
      [] text = ".MP3" -> ".mp3"
      [] OTHER -> text

allowed_extensions == {".wav", ".mp3", ".m4a", ".ogg", ".flac", ".aac"}

NoMimeType == [type |-> "None", subtype |-> ""]

\* mimetypes.guess_type(file.filename)[0], by the lower-cased extension.
guess_type(filename) ==
    LET ext == lower(filename.ext)
    IN CASE ext = ".wav" -> [type |-> "audio", subtype |-> "x-wav"]
         [] ext = ".mp3" -> [type |-> "audio", subtype |-> "mpeg"]
         [] ext = ".m4a" -> [type |-> "audio", subtype |-> "mp4"]
         [] ext = ".ogg" -> [type |-> "audio", subtype |-> "ogg"]
         [] ext = ".flac" -> [type |-> "audio", subtype |-> "flac"]
         [] ext = ".aac" -> [type |-> "audio", subtype |-> "aac"]
         [] ext = ".txt" -> [type |-> "text", subtype |-> "plain"]
         [] OTHER -> NoMimeType

\* The size limit of line 31, in bytes.
MaxFileSize == 50 * 1024 * 1024

\* validate_audio_file, lines 11-39.  An UploadFile has a size attribute in
\* some versions of Starlette and none in others.
validate_audio_file(file) ==
    LET file_extension == lower(splitext(file.filename)[2])
        mime_type == guess_type(file.filename)
    IN IF file_extension \notin allowed_extensions THEN FALSE
       ELSE IF mime_type # NoMimeType /\ mime_type.type # "audio" THEN FALSE
       ELSE IF "size" \in DOMAIN file /\ file.size > MaxFileSize THEN FALSE
       ELSE TRUE

OSError(msg) == [type |-> "OSError", msg |-> msg]

\* The state the upload endpoints work on: the files of UPLOAD_DIR, the
\* analyses whisper_service ran, and the uuid4 values handed out.
\* Lines 37-45 (100-107, 149-156): a file named <uuid4><extension> is
\* written to UPLOAD_DIR; open() may fail.
SaveUpload(fs, file, disk) ==
    LET file_id == fs.uuids + 1
        file_path == <<"static/uploads", file_id, splitext(file.filename)[2]>>
    IN IF disk = "OSError"
       THEN [fs |-> [fs EXCEPT !.uuids = file_id],
             outcome |-> Raised(OSError(file_path))]
       ELSE [fs |-> [fs EXCEPT !.uuids = file_id,
                               !.upload_dir = @ \cup {file_path}],
             outcome |-> Value([file_id |-> file_id,
                                file_path |-> file_path])]

\* whisper_service.<method>(audio_path=file_path, ...): the service catches
\* its own exceptions and always returns a dict, whisper_service.py lines
\* 35-145.
RunAnalysis(fs, method, file_path) ==
    [fs EXCEPT !.analyses = @ \cup {[method |-> method,
                                     audio_path |-> file_path]}]

\* The try body the three endpoints share: validate, save, analyse, answer.
AudioTry(fs, file, disk, method, key) ==
    LET saved == SaveUpload(fs, file, disk)
    IN IF ~validate_audio_file(file)
       THEN [fs |-> fs,
             outcome |-> Raised(HTTPException(400,
                                    "Invalid audio file format"))]
       ELSE IF saved.outcome.raised THEN saved
       ELSE [fs |-> RunAnalysis(saved.fs, method,
                                saved.outcome.value.file_path),
             outcome |-> Value([success |-> TRUE,
                                file_id |-> saved.outcome.value.file_id,
                                result |-> key])]

\* `except Exception as e: raise HTTPException(500, f"<prefix>: {str(e)}")`,
\* lines 82-84, 131-133 and 184-186: it also catches the HTTPException the
\* body raised.
ExceptAudio(done, prefix) ==
    IF done.outcome.raised
    THEN [fs |-> done.fs,
          resp |-> HTTPException(500,
                       <<prefix, IF IsHTTPException(done.outcome.exc)
                                 THEN "HTTPException"
                                 ELSE done.outcome.exc.type>>)]
    ELSE [fs |-> done.fs, resp |-> Response(200, done.outcome.value)]

\* submit_audio, lines 20-84
submit_audio(fs, file, disk) ==
    ExceptAudio(AudioTry(fs, file, disk, "evaluate_speech_with_whisper",
                         "analysis"),
                "Audio processing failed")

\* transcribe_audio, lines 86-133
transcribe_audio(fs, file, disk) ==
    ExceptAudio(AudioTry(fs, file, disk, "transcribe_audio", "transcription"),
                "Transcription failed")

\* analyze_pronunciation, lines 135-186
analyze_pronunciation(fs, file, disk) ==
    ExceptAudio(AudioTry(fs, file, disk, "analyze_pronunciation",
                         "pronunciation_analysis"),
                "Pronunciation analysis failed")

\* Uploads a client may send.
Filenames ==
    {[root |-> "speech", ext |-> ".wav"], [root |-> "SPEECH", ext |-> ".MP3"],
     [root |-> "clip", ext |-> ".ogg"], [root |-> "notes", ext |-> ".txt"],
     [root |-> "speech", ext |-> ""]}
FileSizes == {1024, MaxFileSize, MaxFileSize + 1}
UploadFiles ==
    [filename : Filenames] \cup [filename : Filenames, size : FileSizes]
DiskResults == {"ok", "OSError"}
\* Files the upload directory may hold.
MaxUploads == 2

UploadFs == [upload_dir |-> upload_dir, analyses |-> analyses, uuids |-> uuids]

\* A request to `endpoint` was served as `done`.
ServedUpload(endpoint, file, done) ==
    /\ upload_req' = [endpoint |-> endpoint, file |-> file]
    /\ upload_resp' = done.resp
    /\ upload_dir' = done.fs.upload_dir
    /\ analyses' = done.fs.analyses
    /\ uuids' = done.fs.uuids
    /\ UNCHANGED not_upload_vars

\* POST /audio/submit
SubmitAudio ==
    /\ uuids < MaxUploads
    /\ \E file \in UploadFiles, disk \in DiskResults :
          ServedUpload("submit_audio", file,
                       submit_audio(UploadFs, file, disk))

\* POST /audio/transcribe
TranscribeAudio ==
    /\ uuids < MaxUploads
    /\ \E file \in UploadFiles, disk \in DiskResults :
          ServedUpload("transcribe_audio", file,
                       transcribe_audio(UploadFs, file, disk))

\* POST /audio/pronunciation-analysis
AnalyzePronunciation ==
    /\ uuids < MaxUploads
    /\ \E file \in UploadFiles, disk \in DiskResults :
          ServedUpload("analyze_pronunciation", file,
                       analyze_pronunciation(UploadFs, file, disk))

\* os.makedirs(UPLOAD_DIR, exist_ok=True), line 18: the directory starts
\* with no uploads.
UploadInit ==
    /\ upload_dir = {}
    /\ analyses = {}
    /\ uuids = 0
    /\ upload_req = [endpoint |-> "none"]
    /\ upload_resp = NoResponse

UploadNext ==
    \/ SubmitAudio
    \/ TranscribeAudio
    \/ AnalyzePronunciation

AuthInit ==
    /\ users = <<>>
    /\ auth_pc = [t \in Threads |-> "idle"]
    /\ auth_req = [t \in Threads |-> NoRequest]
    /\ auth_found = [t \in Threads |-> 0]
    /\ auth_resp = [t \in Threads |-> NoResponse]

AuthNext ==
    \E t \in Threads :
        \/ login(t)
        \/ register_query(t)
        \/ register_reject(t)
        \/ register_commit(t)

Init ==
    AuthInit /\ ProgressInit /\ EngineInit /\ ProductionInit /\ UploadInit

SpecAuth == Init /\ [][AuthNext]_vars

SpecProgress == Init /\ [][ProgressNext]_vars

SpecEngine == Init /\ [][EngineNext]_vars

SpecProduction == Init /\ [][ProductionNext]_vars

SpecConcurrent == Init /\ [][ConcurrentNext]_vars

SpecUpload == Init /\ [][UploadNext]_vars

Next ==
    \/ AuthNext
    \/ ProgressNext
    \/ ConcurrentNext
    \/ EngineNext
    \/ ProductionNext
    \/ UploadNext

Spec == Init /\ [][Next]_vars

(***************************************************************************)
(* Claims about the authentication endpoints.                              *)
(***************************************************************************)
\* The last request of thread t was a login that has been answered.
LoginAnswered(t) == auth_req[t].op = "login"

\* The row the login of thread t found holds the password of its payload.
PasswordMatches(t) ==
    /\ auth_found[t] # 0
    /\ users[auth_found[t]].hashed_password = auth_req[t].password

\* C3: login issues an access token only when the email belongs to a
\* registered user and the supplied password matches that user's stored
\* password; every other login is answered 401 'Invalid credentials' and
\* gets no token.
C3_LoginChecksPassword ==
    \A t \in Threads :
        LoginAnswered(t) =>
            IF PasswordMatches(t)
            THEN auth_resp[t] =
                     LoginResponse(200, create_access_token(auth_found[t]))
            ELSE auth_resp[t] = HTTPException(401, "Invalid credentials")

NoTwoUsersShareAnEmail ==
    \A i, j \in 1..Len(users) : users[i].email = users[j].email => i = j

\* C4: register never creates a second user for an email that is already
\* registered: a register request whose lookup finds the email is answered
\* 400 'Email already registered' and leaves the users table unchanged, and
\* under every interleaving of register requests no two User rows share an
\* email.
C4_RegisterKeepsEmailsUnique ==
    /\ []NoTwoUsersShareAnEmail
    /\ [][\A t \in Threads :
            (auth_pc[t] = "queried" /\ auth_found[t] # 0 /\ auth_pc'[t] = "idle")
                => /\ auth_resp'[t] =
                          HTTPException(400, "Email already registered")
                   /\ users' = users]_vars

\* One register request was refused with 400 because its lookup found the
\* email, and another lost the race between lookup and commit to a request for
\* the same email (its INSERT was refused by the unique index).
C4_Witness ==
    \E t1, t2 \in Threads :
        /\ auth_req[t1].op = "register" /\ auth_pc[t1] = "idle"
        /\ auth_found[t1] # 0
        /\ auth_resp[t1] = HTTPException(400, "Email already registered")
        /\ auth_req[t2].op = "register" /\ auth_pc[t2] = "idle"
        /\ auth_found[t2] = 0
        /\ auth_resp[t2].status = 500
        /\ auth_req[t1].email = auth_req[t2].email
        /\ Len(users) = 1

(***************************************************************************)
(* Claims about the progress endpoints.                                    *)
(***************************************************************************)
\* C5: create_progress answers 400 'Progress already exists for this lesson'
\* and inserts no row when the authenticated user already has a Progress row
\* for the requested lesson_id.
C5_CreateProgressDuplicateIs400 ==
    [][(/\ prog_endpoint' = "create_progress"
        /\ QueryProgress(progress, prog_req'.user,
                         prog_req'.body.lesson_id) # 0)
          => /\ prog_resp' = HTTPException(400,
                                 "Progress already exists for this lesson")
             /\ progress' = progress]_vars

\* C6: get_lesson_progress and update_progress answer 404 'Progress not
\* found' when the authenticated user has no Progress row for the given
\* lesson_id, and leave the database unchanged.
C6_MissingProgressIs404 ==
    [][(/\ prog_endpoint' \in {"get_lesson_progress", "update_progress"}
        /\ HasLessonId(prog_req'.path)
        /\ QueryProgress(progress, prog_req'.user,
                         LessonOfPath(prog_req'.path)) = 0)
          => /\ prog_resp' = HTTPException(404, "Progress not found")
             /\ progress' = progress]_vars

\* The table holds a row of (user_id, lesson_id) that records exactly the one
\* session `session_data`.
RecordsFirstSession(db, user_id, lesson_id, session_data) ==
    LET i == QueryProgress(db, user_id, lesson_id) IN
    /\ i # 0
    /\ db[i].session_count = 1
    /\ db[i].time_spent_minutes = session_data.duration_minutes
    /\ db[i].xp_gained = session_data.xp_earned
    /\ db[i].total_xp = session_data.xp_earned
    /\ db[i].accuracy_score = session_data.accuracy
    /\ db[i].fluency_score = session_data.fluency
    /\ db[i].pronunciation_score = session_data.pronunciation

\* C7: save_session_data for a (user, lesson) pair that has no Progress row
\* creates that row and applies the session to it (session_count = 1,
\* time_spent_minutes = duration_minutes, xp_gained = total_xp = xp_earned,
\* scores taken from the session), then answers success true.
C7_FirstSessionCreatesRow ==
    [][(/\ prog_endpoint' = "save_session_data"
        /\ HasLessonId(prog_req'.path)
        /\ QueryProgress(progress, prog_req'.user,
                         LessonOfPath(prog_req'.path)) = 0)
          => /\ prog_resp'.status = 200
             /\ prog_resp'.body.success
             /\ RecordsFirstSession(progress', prog_req'.user,
                    LessonOfPath(prog_req'.path), prog_req'.body)]_vars

StatisticsPath == <<"progress", "user", "progress", "statistics">>

\* C8: a GET request to /progress/user/progress/statistics is dispatched to
\* get_progress_statistics and returns the aggregates of the authenticated
\* user's Progress rows, or the message 'No progress data found' when the
\* user has no rows.
C8_StatisticsRouteServed ==
    (prog_req.method = "GET" /\ prog_req.path = StatisticsPath)
        => /\ prog_endpoint = "get_progress_statistics"
           /\ prog_resp = get_progress_statistics(progress, prog_req.user).resp

(***************************************************************************)
(* Claims about the gamification engine.                                   *)
(***************************************************************************)
\* The last engine call was of `method` and returned (did not raise).
ReturnedFrom(method) == eng_call.method = method /\ ~eng_result.raised

\* int(base_xp * performance_multiplier * streak_multiplier) +
\* consistency_bonus for the arguments of the last calculate_xp_reward call
\* whose score is a number.
FormulaXp(activity_type, performance_data, user_id) ==
    IntOfProduct(_get_base_xp(activity_type),
                 _calculate_performance_multiplier(performance_data).value,
                 _get_streak_multiplier(Self, user_id).value)
    + _calculate_consistency_bonus(Self, user_id).value

NumericScore(performance_data) ==
    Get(performance_data, "score", Num(50)).type = "int"

\* C1: for every activity_type, performance_data and user_id,
\* calculate_xp_reward returns total_xp = int(base_xp *
\* performance_multiplier * streak_multiplier) + consistency_bonus + the sum
\* of the special bonuses, with base_xp from the per-activity table (20 for an
\* unknown type) and performance_multiplier from the score tiers.
C1_XpRewardFormula ==
    (eng_call.method = "calculate_xp_reward" /\ NumericScore(eng_call.args[2]))
        => /\ ~eng_result.raised
           /\ "error" \notin DOMAIN eng_result.value
           /\ "special_bonuses" \in DOMAIN eng_result.value
           /\ eng_result.value.base_xp = _get_base_xp(eng_call.args[1])
           /\ eng_result.value.total_xp =
                  FormulaXp(eng_call.args[1], eng_call.args[2],
                            eng_call.args[3])
                  + SumValues(eng_result.value.special_bonuses)

\* C2: update_streak returns as current_streak the user's count of
\* consecutive days of activity, computed from the stored streak, the last
\* activity date and the new activity date, together with
\* longest_streak >= current_streak.
C2_StreakUpdateReturnsStreaks ==
    eng_call.method = "update_streak"
        => /\ ~eng_result.raised
           /\ "error" \notin DOMAIN eng_result.value
           /\ "longest_streak" \in DOMAIN eng_result.value
           /\ eng_result.value.longest_streak
                  >= eng_result.value.current_streak

\* The outcome of the try body of the last engine call.
LastTryOutcome ==
    LET m == eng_call.method
        a == eng_call.args
    IN CASE m = "calculate_xp_reward" ->
                calculate_xp_reward_try(Self, a[1], a[2], a[3])
         [] m = "check_achievements" -> check_achievements_try(Self, a[1], a[2])
         [] m = "update_streak" -> update_streak_try(Self, a[1], a[2], now)
         [] m = "generate_leaderboard" ->
                generate_leaderboard_try(Self, a[1], a[2])
         [] m = "create_personalized_challenges" ->
                create_personalized_challenges_try(Self, a[1], a[2])
         [] m = "generate_motivation_content" ->
                generate_motivation_content_try(Self, a[1], a[2])

\* C9: every public operation of GamificationEngine never raises to its
\* caller: on any internal failure it returns its fallback value (total_xp 10
\* with an error field; an empty list; current_streak 1 with an error field;
\* an error dict).
C9_EngineNeverRaises ==
    eng_call.method # "none"
        => /\ ~eng_result.raised
           /\ LastTryOutcome.raised =>
                 eng_result.value =
                     CASE eng_call.method = "calculate_xp_reward" ->
                              [total_xp |-> 10,
                               error |-> LastTryOutcome.exc.msg]
                       [] eng_call.method = "update_streak" ->
                              [current_streak |-> 1,
                               error |-> LastTryOutcome.exc.msg]
                       [] eng_call.method \in {"check_achievements",
                              "create_personalized_challenges"} -> <<>>
                       [] OTHER -> [error |-> LastTryOutcome.exc.msg]

\* A call whose try body failed on a missing helper returned its fallback.
C9_Witness ==
    /\ eng_call.method = "generate_leaderboard"
    /\ LastTryOutcome.raised
    /\ LastTryOutcome.exc.type = "AttributeError"
    /\ eng_result = Value([error |-> LastTryOutcome.exc.msg])

\* Contents user_stats and leaderboards could have.
UserStatsContents ==
    {EmptyDict}
    \cup {[u \in us |-> [current_streak |-> n, consistency_days |-> n]] :
             us \in (SUBSET EngineUsers) \ {{}}, n \in {0, 30}}
LeaderboardsContents == {EmptyDict, [weekly |-> <<"u2", "u1">>]}

\* C10: calculate_xp_reward is deterministic and state-independent: two calls
\* with equal activity_type, performance_data and user_id return equal
\* results whatever gamification operations ran between them, and the result
\* does not depend on the contents of user_stats or leaderboards.
C10_XpRewardStateIndependent ==
    eng_call.method = "calculate_xp_reward"
        => /\ (xp_seen.set /\ xp_seen.args = eng_call.args)
                 => xp_seen.result = eng_result
           /\ \A stats \in UserStatsContents, boards \in LeaderboardsContents :
                 calculate_xp_reward(
                     [user_stats |-> stats, leaderboards |-> boards],
                     eng_call.args[1], eng_call.args[2], eng_call.args[3])
                 = eng_result

\* calculate_xp_reward was called again with the arguments of a remembered
\* call, after another engine method ran and on a later day.
C10_Witness ==
    /\ eng_call.method = "calculate_xp_reward"
    /\ xp_seen.set /\ xp_seen.between
    /\ xp_seen.args = eng_call.args
    /\ now > 1
    /\ eng_result = Value([total_xp |-> 10,
           error |-> "'GamificationEngine' object has no attribute '_check_special_bonuses'"])

(***************************************************************************)
(* Claims about the production learning engine and the AI models.          *)
(***************************************************************************)
\* The keys of a personalised pathway.
PathwayKeys ==
    {"target_level", "learning_path", "milestones", "estimated_duration"}

\* C11: create_student_profile, for any initial assessment, stores the
\* profile in student_profiles[user_id] and a pathway with target level,
\* learning path, milestones and estimated duration in
\* learning_pathways[user_id], and returns the profile.
C11_CreateStudentProfileStoresPathway ==
    ple_call.method = "create_student_profile" =>
        LET user_id == ple_call.args[1] IN
        /\ ~ple_result.raised
        /\ user_id \in DOMAIN student_profiles
        /\ ple_result.value = student_profiles[user_id]
        /\ user_id \in DOMAIN learning_pathways
        /\ PathwayKeys \subseteq DOMAIN learning_pathways[user_id]

\* C12: POST /production/initialize-ai-models answers success true with the
\* list of loaded models whenever initialize_production_models completed
\* without raising, and answers 500 only when loading failed.
C12_InitializeAnswersSuccess ==
    LET completed == ai_loading \in {"ok", "spacy_OSError"} IN
    ai_loading # "none" =>
        /\ completed =>
              /\ ai_resp.status = 200
              /\ ai_resp.body.success = TRUE
              /\ Len(ai_resp.body.models_loaded) > 0
        /\ ai_resp.status = 500 => ~completed

(***************************************************************************)
(* Claims about the audio upload endpoints.                                *)
(***************************************************************************)
\* This step served an upload that validate_audio_file rejects.
ServedRejectedUpload ==
    /\ upload_vars' # upload_vars
    /\ upload_req'.endpoint \in
           {"submit_audio", "transcribe_audio", "analyze_pronunciation"}
    /\ ~validate_audio_file(upload_req'.file)

\* C13: submit_audio, transcribe_audio and analyze_pronunciation answer 400
\* "Invalid audio file format" when validate_audio_file rejects the upload,
\* and then write no file to the upload directory and run no analysis.
C13_RejectedUploadIs400 ==
    [][ServedRejectedUpload =>
          /\ upload_resp'.status = 400
          /\ upload_resp'.detail = "Invalid audio file format"
          /\ upload_dir' = upload_dir
          /\ analyses' = analyses]_vars

(***************************************************************************)
(* Claims about the isolation of users in the progress endpoints.          *)
(***************************************************************************)
\* The Progress rows a response carries.
ReturnedRows(endpoint, resp) ==
    IF resp.status # 200 THEN {}
    ELSE IF endpoint = "get_user_progress"
    THEN {resp.body[i] : i \in 1..Len(resp.body)}
    ELSE IF endpoint \in {"get_lesson_progress", "create_progress",
                          "update_progress"}
    THEN {resp.body}
    ELSE {}

\* C14: every progress endpoint reads and writes only rows whose user_id is
\* the authenticated user's id: a request of user A leaves every row of
\* another user as it was, creates rows only with A's id (whatever user_id
\* the payload of create_progress carries) and returns only rows of A.
C14_ProgressIsolatedByUser ==
    [][LET user == prog_req'.user IN
       /\ Len(progress') >= Len(progress)
       /\ \A i \in 1..Len(progress) :
              progress[i].user_id # user => progress'[i] = progress[i]
       /\ \A i \in (Len(progress) + 1)..Len(progress') :
              progress'[i].user_id = user
       /\ \A row \in ReturnedRows(prog_endpoint', prog_resp') :
              row.user_id = user]_vars

\* create_progress was served for a user whose payload names another user,
\* while the table holds a row of another user.
C14_Witness ==
    /\ prog_endpoint = "create_progress"
    /\ prog_resp.status = 200
    /\ prog_req.body.user_id # prog_req.user
    /\ prog_resp.body.user_id = prog_req.user
    /\ \E i \in 1..Len(progress) : progress[i].user_id # prog_req.user

SatisfiesCriteria(stats, criteria) ==
    \A key \in DOMAIN criteria :
        key \in DOMAIN stats /\ stats[key] >= criteria[key]

\* The ids of the catalog achievements whose criteria the stats satisfy.
\* The engine keeps no record of the achievements a user holds, so none of
\* them is held.
SatisfiedAchievements(stats) ==
    {achievements_catalog[i].id :
        i \in {j \in 1..Len(achievements_catalog) :
                  SatisfiesCriteria(stats, achievements_catalog[j].criteria)}}

\* C16: check_achievements returns exactly the catalog achievements whose
\* criteria the stats satisfy and that the user does not yet hold, each with
\* its unlock time and celebration data.
C16_CheckAchievementsExact ==
    eng_call.method = "check_achievements" =>
        LET returned == eng_result.value IN
        /\ ~eng_result.raised
        /\ {returned[i].achievement.id : i \in 1..Len(returned)}
              = SatisfiedAchievements(eng_call.args[2])
        /\ \A i \in 1..Len(returned) :
              {"unlocked_at", "celebration_data"} \subseteq DOMAIN returned[i]

====
